---- MODULE Spec2Model ----
(***************************************************************************)
(* Model of src/bloom-cache.py: BloomCache, a bloom filter in front of a   *)
(* process-local dict and a shared Redis store, and the two module-level   *)
(* entry points cached_completion (get) and cache_response (set).          *)
(*                                                                         *)
(* Spec     : one caller, every handler is one atomic action.              *)
(* SpecConc : several request threads share the singleton; a handler is a  *)
(*            sequence of steps and the threads' steps interleave.         *)
(***************************************************************************)
EXTENDS Integers, Sequences, FiniteSets, TLC

(***************************************************************************)
(* Bounds and inputs                                                       *)
(***************************************************************************)

\* self.max_local is 100 in the source (line 22); scaled down so that a
\* handful of prompts fills the dict.
max_local == 2

Prompts == {"A", "B", "C"}

\* request threads of SpecConc, and the number of calls they make in all
Threads == {1, 2}
MaxCalls == 4

\* Responses a caller may cache for a prompt; the empty string is a legal
\* response and is falsy in Python.
Responses(prompt) ==
    CASE prompt = "A" -> {"respA", ""}
      [] prompt = "B" -> {"respB"}
      [] prompt = "C" -> {"respC"}

Values == UNION { Responses(p) : p \in Prompts }

None == "None"      \* Python's None
Raise == "Raise"    \* the call ended in an exception that reached the caller

\* Constructor arguments (capacity, error_rate).  The first pair is the
\* default of line 14, used by the singleton of line 79; the second has a
\* small capacity; the third passes a negative error_rate, which the
\* constructor does not reject and which is the only way to a filter with
\* size > 0 and hash_count > 0.
Configs ==
    { [capacity |-> 1000000, error_rate |-> "0.001"],
      [capacity |-> 100,     error_rate |-> "0.001"],
      [capacity |-> 4,       error_rate |-> "-0.9"] }

(***************************************************************************)
(* Library functions the code calls                                        *)
(***************************************************************************)

\* hashlib.md5(prompt.encode()).hexdigest(): the digest is a string of 32
\* lowercase hex digits, so Python's string order on digests is the numeric
\* order of any common-length prefix.  The table holds the first 7 hex
\* digits of the real digests:
\*   "A" -> 7fc5627..., "B" -> 9d5ed67..., "C" -> 0d61f83...
Md5(prompt) ==
    CASE prompt = "A" -> 133977639
      [] prompt = "B" -> 165014887
      [] prompt = "C" -> 14032771

Keys == { Md5(p) : p \in Prompts }

\* mmh3.hash(item, seed): MurmurHash3 x86 32-bit, signed, of the full hex
\* digest (real values, seeds 0..2).
Mmh3(key, seed) ==
    CASE key = 133977639 ->
           (CASE seed = 0 -> 308624668  [] seed = 1 -> -380198710
              [] seed = 2 -> -609519978)
      [] key = 165014887 ->
           (CASE seed = 0 -> 1395796360 [] seed = 1 -> -335169922
              [] seed = 2 -> -1025965547)
      [] key = 14032771 ->
           (CASE seed = 0 -> -547067946 [] seed = 1 -> -951731672
              [] seed = 2 -> 1896745406)

\* Python's hash() of a float x with |x| < 1 is x * 2^61 (mod 2^61 - 1) with
\* the sign of x; for the floats below that product is an exact integer.
\* Values are given in units of 2^61 / 10^4, which keeps every quotient the
\* code forms:  hash(0.001) = 2305843009213694, hash(0.6185) =
\* 1426163901198669824, hash(-0.9) = -2075258708292324608.
PyHashFloat(x) ==
    CASE x = "0.001"  -> 10
      [] x = "0.6185" -> 6185
      [] x = "-0.9"   -> -9000

Abs(a) == IF a < 0 THEN -a ELSE a

\* int(a / b): true division, then truncation toward zero.
PyIntQuot(a, b) ==
    IF (a >= 0) = (b > 0) THEN Abs(a) \div Abs(b) ELSE -(Abs(a) \div Abs(b))

\* Python truthiness of an Optional[str].
Truthy(x) == x # None /\ x # ""

Min(S) == CHOOSE x \in S : \A y \in S : x <= y

\* dict item assignment and deletion
DictPut(d, k, v) == [x \in (DOMAIN d) \cup {k} |-> IF x = k THEN v ELSE d[x]]
DictDel(d, k) == [x \in (DOMAIN d) \ {k} |-> d[x]]
EmptyDict == [x \in {} |-> None]

SeqRemove(s, k) == SelectSeq(s, LAMBDA x : x # k)
Touch(s, k) == Append(SeqRemove(s, k), k)

(***************************************************************************)
(* State                                                                   *)
(***************************************************************************)
VARIABLES
    status,       \* "running", or "import_error" when BloomCache() raised
    capacity,     \* self.capacity
    error_rate,   \* the constructor's error_rate argument
    size,         \* self.size
    hash_count,   \* self.hash_count
    bloom,        \* self.bloom: bit array, positions 0..size-1
    local_cache,  \* self.local_cache: dict key -> response
    redis,        \* the shared Redis store: records "cache:<key>" -> response
    last,         \* observation of the latest call: arguments, outcome, path
    added,        \* history: keys on which add() has been called
    own,          \* history: keys whose Redis record is the one written by
                  \*   the latest store of this instance, which succeeded
                  \*   (SpecConc: and whose dict entry no lookup has put since)
    set_failed,   \* history: keys for which some store raised
    recency,      \* history: resident keys, least recently touched first
    written,      \* SpecConc, history: keys this instance has written to Redis
    call,         \* SpecConc: per thread, the frame of the call it is in
    ncalls        \* SpecConc: number of calls the threads have entered

vars == <<status, capacity, error_rate, size, hash_count, bloom,
          local_cache, redis, last,
          added, own, set_failed, recency, written, call, ncalls>>

(***************************************************************************)
(* BloomCache                                                              *)
(***************************************************************************)

_optimal_size(n, p) == PyIntQuot(-(n * PyHashFloat(p)), PyHashFloat("0.6185"))

\* hash(2) = 2
_optimal_hash_count(m, n) == PyIntQuot(m * 2, n)

\* range(self.hash_count) is empty when hash_count <= 0
_get_hash_positions(item) ==
    [i \in 1..hash_count |-> Mmh3(item, i - 1) % size]

PositionSet(item) ==
    { _get_hash_positions(item)[i] : i \in 1..hash_count }

might_exist(key) == \A pos \in PositionSet(key) : bloom[pos] = 1

\* add as it would be if it rebuilt the bit array for each key
add_rebuilds(key) ==
    [pos \in DOMAIN bloom |-> IF pos \in PositionSet(key) THEN 1 ELSE 0]

\* the bit array after add(key)
add(key) ==
    [pos \in DOMAIN bloom |-> IF pos \in PositionSet(key) THEN 1 ELSE bloom[pos]]

\* self.redis.get(f"cache:{key}") under a call outcome: "ok", or "error"
\* (the client raised: connection refused, reset, timed out)
RedisGet(key, outcome) ==
    IF outcome # "ok" THEN Raise
    ELSE IF key \in DOMAIN redis THEN redis[key] ELSE None

\* get as it would be with the filter asked before the dict
get_filter_first(prompt, outcome) ==
    LET key == Md5(prompt)
        result == RedisGet(key, outcome)
        full == Cardinality(DOMAIN local_cache) >= max_local
        oldest == Min(DOMAIN local_cache)
        kept == IF full THEN DictDel(local_cache, oldest) ELSE local_cache
    IN  IF ~might_exist(key)
        THEN [ret |-> None, local |-> local_cache, calls |-> 0,
              filter |-> TRUE, evicted |-> {}]
        ELSE IF key \in DOMAIN local_cache
        THEN [ret |-> local_cache[key], local |-> local_cache, calls |-> 0,
              filter |-> TRUE, evicted |-> {}]
        ELSE IF result = Raise
        THEN [ret |-> Raise, local |-> local_cache, calls |-> 1,
              filter |-> TRUE, evicted |-> {}]
        ELSE IF Truthy(result)
        THEN [ret |-> result, local |-> DictPut(kept, key, result),
              calls |-> 1, filter |-> TRUE,
              evicted |-> IF full THEN {oldest} ELSE {}]
        ELSE [ret |-> result, local |-> local_cache, calls |-> 1,
              filter |-> TRUE, evicted |-> {}]

\* get as it would be if it ended with "return result or None"
get_falsy_is_none(prompt, outcome) ==
    LET key == Md5(prompt)
        result == RedisGet(key, outcome)
        full == Cardinality(DOMAIN local_cache) >= max_local
        oldest == Min(DOMAIN local_cache)
        kept == IF full THEN DictDel(local_cache, oldest) ELSE local_cache
    IN  IF key \in DOMAIN local_cache
        THEN [ret |-> local_cache[key], local |-> local_cache, calls |-> 0,
              filter |-> FALSE, evicted |-> {}]
        ELSE IF ~might_exist(key)
        THEN [ret |-> None, local |-> local_cache, calls |-> 0,
              filter |-> TRUE, evicted |-> {}]
        ELSE IF result = Raise
        THEN [ret |-> Raise, local |-> local_cache, calls |-> 1,
              filter |-> TRUE, evicted |-> {}]
        ELSE IF Truthy(result)
        THEN [ret |-> result, local |-> DictPut(kept, key, result),
              calls |-> 1, filter |-> TRUE,
              evicted |-> IF full THEN {oldest} ELSE {}]
        ELSE [ret |-> None, local |-> local_cache, calls |-> 1,
              filter |-> TRUE, evicted |-> {}]

\* get as it would be if it remembered a miss: self.local_cache[key] = result
\* for every result
get_caches_miss(prompt, outcome) ==
    LET key == Md5(prompt)
        result == RedisGet(key, outcome)
        full == Cardinality(DOMAIN local_cache) >= max_local
        oldest == Min(DOMAIN local_cache)
        kept == IF full THEN DictDel(local_cache, oldest) ELSE local_cache
    IN  IF key \in DOMAIN local_cache
        THEN [ret |-> local_cache[key], local |-> local_cache, calls |-> 0,
              filter |-> FALSE, evicted |-> {}]
        ELSE IF ~might_exist(key)
        THEN [ret |-> None, local |-> local_cache, calls |-> 0,
              filter |-> TRUE, evicted |-> {}]
        ELSE IF result = Raise
        THEN [ret |-> Raise, local |-> local_cache, calls |-> 1,
              filter |-> TRUE, evicted |-> {}]
        ELSE [ret |-> result, local |-> DictPut(kept, key, result),
              calls |-> 1, filter |-> TRUE,
              evicted |-> IF full THEN {oldest} ELSE {}]

\* get as it would be if a resident entry were dropped once its record is
\* no longer in Redis
get_expires_local(prompt, outcome) ==
    LET key == Md5(prompt)
        result == RedisGet(key, outcome)
        full == Cardinality(DOMAIN local_cache) >= max_local
        oldest == Min(DOMAIN local_cache)
        kept == IF full THEN DictDel(local_cache, oldest) ELSE local_cache
    IN  IF key \in DOMAIN local_cache /\ key \notin DOMAIN redis
        THEN [ret |-> None, local |-> DictDel(local_cache, key), calls |-> 1,
              filter |-> FALSE, evicted |-> {}]
        ELSE IF key \in DOMAIN local_cache
        THEN [ret |-> local_cache[key], local |-> local_cache, calls |-> 0,
              filter |-> FALSE, evicted |-> {}]
        ELSE IF ~might_exist(key)
        THEN [ret |-> None, local |-> local_cache, calls |-> 0,
              filter |-> TRUE, evicted |-> {}]
        ELSE IF result = Raise
        THEN [ret |-> Raise, local |-> local_cache, calls |-> 1,
              filter |-> TRUE, evicted |-> {}]
        ELSE IF Truthy(result)
        THEN [ret |-> result, local |-> DictPut(kept, key, result),
              calls |-> 1, filter |-> TRUE,
              evicted |-> IF full THEN {oldest} ELSE {}]
        ELSE [ret |-> result, local |-> local_cache, calls |-> 1,
              filter |-> TRUE, evicted |-> {}]

\* get(prompt): what it returns, the dict it leaves, and what it did
get(prompt, outcome) ==
    LET key == Md5(prompt)
        result == RedisGet(key, outcome)
        full == Cardinality(DOMAIN local_cache) >= max_local
        oldest == Min(DOMAIN local_cache)
        kept == IF full THEN DictDel(local_cache, oldest) ELSE local_cache
    IN  IF key \in DOMAIN local_cache
        THEN [ret |-> local_cache[key], local |-> local_cache, calls |-> 0,
              filter |-> FALSE, evicted |-> {}]
        ELSE IF ~might_exist(key)
        THEN [ret |-> None, local |-> local_cache, calls |-> 0,
              filter |-> TRUE, evicted |-> {}]
        ELSE IF result = Raise
        THEN [ret |-> Raise, local |-> local_cache, calls |-> 1,
              filter |-> TRUE, evicted |-> {}]
        ELSE IF Truthy(result)
        THEN [ret |-> result, local |-> DictPut(kept, key, result),
              calls |-> 1, filter |-> TRUE,
              evicted |-> IF full THEN {oldest} ELSE {}]
        ELSE [ret |-> result, local |-> local_cache, calls |-> 1,
              filter |-> TRUE, evicted |-> {}]

\* set as it would be with self.local_cache.setdefault(key, response)
set_setdefault(prompt, response, outcome) ==
    LET key == Md5(prompt)
    IN  [bloom |-> add(key),
         redis |-> IF outcome \in {"ok", "timeout"}
                   THEN DictPut(redis, key, response) ELSE redis,
         local |-> IF outcome = "ok" /\ key \notin DOMAIN local_cache
                   THEN DictPut(local_cache, key, response) ELSE local_cache,
         ret   |-> IF outcome = "ok" THEN None ELSE Raise]

\* set as it would be with self.add(key) moved after the setex call
set_add_after(prompt, response, outcome) ==
    LET key == Md5(prompt)
    IN  [bloom |-> IF outcome = "ok" THEN add(key) ELSE bloom,
         redis |-> IF outcome \in {"ok", "timeout"}
                   THEN DictPut(redis, key, response) ELSE redis,
         local |-> IF outcome = "ok"
                   THEN DictPut(local_cache, key, response) ELSE local_cache,
         ret   |-> IF outcome = "ok" THEN None ELSE Raise]

\* set as it would be with the dict written before the setex call
set_put_first(prompt, response, outcome) ==
    LET key == Md5(prompt)
    IN  [bloom |-> add(key),
         redis |-> IF outcome \in {"ok", "timeout"}
                   THEN DictPut(redis, key, response) ELSE redis,
         local |-> DictPut(local_cache, key, response),
         ret   |-> IF outcome = "ok" THEN None ELSE Raise]

\* set(prompt, response): outcome of setex is "ok", "error" (raised, nothing
\* written) or "timeout" (raised after the server applied the write)
set(prompt, response, outcome) ==
    LET key == Md5(prompt)
    IN  [bloom |-> add(key),
         redis |-> IF outcome \in {"ok", "timeout"}
                   THEN DictPut(redis, key, response) ELSE redis,
         local |-> IF outcome = "ok"
                   THEN DictPut(local_cache, key, response) ELSE local_cache,
         ret   |-> IF outcome = "ok" THEN None ELSE Raise]

(***************************************************************************)
(* Observation record                                                      *)
(***************************************************************************)
Quiet ==
    [op |-> "init", prompt |-> "-", value |-> None, ret |-> None,
     calls |-> 0, filter |-> FALSE, evicted |-> {}, outcome |-> "-",
     resident |-> FALSE, passes |-> FALSE, fresh |-> FALSE,
     stored |-> None, follows |-> None, changed |-> FALSE, lru |-> {}]

\* frame of a thread that is in no call
Idle ==
    [pc |-> "idle", key |-> 0, value |-> None, i |-> 0, result |-> None,
     oldest |-> 0]

Fresh ==
    /\ \A pos \in DOMAIN bloom : bloom[pos] = 0
    /\ local_cache = EmptyDict
    /\ redis = EmptyDict

(***************************************************************************)
(* Init: the module is imported and BloomCache(capacity, error_rate) runs  *)
(***************************************************************************)
Init ==
    \E cfg \in Configs :
        LET m == _optimal_size(cfg.capacity, cfg.error_rate)
        IN  /\ capacity = cfg.capacity
            /\ error_rate = cfg.error_rate
            /\ size = m
            /\ hash_count = _optimal_hash_count(m, cfg.capacity)
            \* bitarray(size) raises ValueError for a negative length
            /\ status = IF m >= 0 THEN "running" ELSE "import_error"
            /\ bloom = [pos \in 0..(m - 1) |-> 0]
            /\ local_cache = EmptyDict
            /\ redis = EmptyDict
            /\ last = Quiet
            /\ added = {}
            /\ own = {}
            /\ set_failed = {}
            /\ recency = <<>>
            /\ written = {}
            /\ call = [t \in Threads |-> Idle]
            /\ ncalls = 0

(***************************************************************************)
(* Actions                                                                 *)
(***************************************************************************)

\* cached_completion(prompt) -> bloom_cache.get(prompt)
cached_completion(prompt) ==
    /\ status = "running"
    /\ \E outcome \in {"ok", "error"} :
        LET key == Md5(prompt)
            r == get(prompt, outcome)
        IN  /\ local_cache' = r.local
            \* a hit and a repopulation both touch the key
            /\ recency' =
                 IF key \in DOMAIN r.local
                 THEN Touch(SelectSeq(recency, LAMBDA x : x \notin r.evicted), key)
                 ELSE recency
            /\ last' =
                 [op |-> "get", prompt |-> prompt, value |-> None,
                  ret |-> r.ret, calls |-> r.calls, filter |-> r.filter,
                  evicted |-> r.evicted,
                  outcome |-> IF r.calls = 0 THEN "-" ELSE outcome,
                  resident |-> key \in DOMAIN local_cache,
                  passes |-> might_exist(key),
                  fresh |-> Fresh,
                  stored |-> IF key \in own THEN redis[key] ELSE None,
                  follows |-> IF last.op = "set" /\ last.prompt = prompt
                                 /\ last.ret = None
                              THEN last.value ELSE None,
                  changed |-> last.op = "set" /\ last.prompt = prompt
                                 /\ last.ret = None /\ last.changed,
                  lru |-> IF r.evicted # {} THEN {Head(recency)} ELSE {}]
            /\ UNCHANGED <<status, capacity, error_rate, size, hash_count,
                           bloom, redis, added, own, set_failed, written,
                           call, ncalls>>

\* cache_response(prompt, response) -> bloom_cache.set(prompt, response)
cache_response(prompt, response) ==
    /\ status = "running"
    /\ \E outcome \in {"ok", "error", "timeout"} :
        LET key == Md5(prompt)
            r == set(prompt, response, outcome)
        IN  /\ bloom' = r.bloom
            /\ redis' = r.redis
            /\ local_cache' = r.local
            /\ added' = added \cup {key}
            /\ own' = IF outcome = "ok" THEN own \cup {key}
                      ELSE IF outcome = "timeout" THEN own \ {key} ELSE own
            /\ set_failed' = IF outcome = "ok" THEN set_failed
                             ELSE set_failed \cup {key}
            /\ recency' = IF key \in DOMAIN r.local /\ outcome = "ok"
                          THEN Touch(recency, key) ELSE recency
            /\ last' = [Quiet EXCEPT !.op = "set", !.prompt = prompt,
                           !.value = response, !.ret = r.ret, !.calls = 1,
                           !.outcome = outcome,
                           !.changed = (key \in DOMAIN local_cache
                                        /\ local_cache[key] # response)]
            /\ UNCHANGED <<status, capacity, error_rate, size, hash_count,
                           written, call, ncalls>>

\* The TTL of a record elapses in Redis.
Expire(key) ==
    /\ status = "running"
    /\ key \in DOMAIN redis
    /\ redis' = DictDel(redis, key)
    /\ own' = own \ {key}
    /\ last' = [Quiet EXCEPT !.op = "env"]
    /\ UNCHANGED <<status, capacity, error_rate, size, hash_count, bloom,
                   local_cache, added, set_failed, recency, written, call,
                   ncalls>>

\* Another process running the same module stores a response: its setex
\* reaches the shared Redis, its filter and dict are its own.
PeerSet(prompt, response) ==
    /\ status = "running"
    /\ redis' = DictPut(redis, Md5(prompt), response)
    /\ own' = own \ {Md5(prompt)}
    /\ last' = [Quiet EXCEPT !.op = "env"]
    /\ UNCHANGED <<status, capacity, error_rate, size, hash_count, bloom,
                   local_cache, added, set_failed, recency, written, call,
                   ncalls>>

Next ==
    \/ \E p \in Prompts : cached_completion(p)
    \/ \E p \in Prompts : \E v \in Responses(p) : cache_response(p, v)
    \/ \E k \in Keys : Expire(k)
    \/ \E p \in Prompts : \E v \in Responses(p) : PeerSet(p, v)

Spec == Init /\ [][Next]_vars

TypeOK ==
    /\ status \in {"running", "import_error"}
    /\ DOMAIN local_cache \subseteq Keys
    /\ DOMAIN redis \subseteq Keys
    /\ \A pos \in DOMAIN bloom : bloom[pos] \in {0, 1}

(***************************************************************************)
(* Properties of the single-caller specification                           *)
(***************************************************************************)
LastKey == Md5(last.prompt)

\* C1: no false negatives: every key on which add() has been called is
\* answered "might exist" by the filter in every later state, whatever
\* lookups, stores, expiries and peer writes came in between.
C1_NoFalseNegatives == \A key \in added : might_exist(key)

\* a lookup of an added key that still passes after a second key was added
C1_Witness ==
    /\ hash_count >= 1
    /\ Cardinality(added) >= 2
    /\ last.op = "get"
    /\ LastKey \in added
    /\ last.passes

\* C2: a lookup that immediately follows a successful store of the same
\* prompt, and does not itself fail, returns the value just stored, also
\* when the prompt was resident with another value before the store.
C2_StoreThenLookup ==
    (last.op = "get" /\ last.follows # None /\ last.outcome # "error")
        => last.ret = last.follows

C2_Witness ==
    /\ last.op = "get"
    /\ last.follows # None
    /\ last.changed
    /\ last.ret = last.follows

\* C3: a lookup that does not fail, of a key whose Redis record was written
\* by this instance's latest successful store and has not expired, returns
\* the value of that record, resident or not.
C3_StoredNeverNone ==
    (last.op = "get" /\ last.stored # None /\ last.outcome # "error")
        => last.ret = last.stored

\* the key had been evicted from the dict and the lookup fell through
C3_Witness ==
    /\ last.op = "get"
    /\ last.stored # None
    /\ ~last.resident
    /\ last.calls = 1
    /\ last.ret = last.stored

\* C4: the dict never holds more than max_local entries.
C4_LocalCapacity == Cardinality(DOMAIN local_cache) <= max_local

\* C5: a lookup of a prompt this instance never stored, whose key has an
\* unset filter bit or that runs on a freshly constructed instance with an
\* empty store, returns None and makes no Redis call.
C5_FilterGate ==
    (last.op = "get" /\ LastKey \notin added /\ (~last.passes \/ last.fresh))
        => (last.ret = None /\ last.calls = 0)

\* C6: a lookup whose Redis call fails returns None to its caller.
C6_LookupFailureIsMiss ==
    (last.op = "get" /\ last.outcome = "error") => last.ret = None

\* C7: a store whose Redis write fails raises to its caller with the key's
\* filter bits set; the bits stay set, and a later lookup of that prompt
\* passes the filter and makes one Redis call, unless the dict still holds
\* the key and answers first.
C7_FailedStore ==
    /\ (last.op = "set" /\ last.outcome \in {"error", "timeout"})
           => (last.ret = Raise /\ might_exist(LastKey))
    /\ \A key \in set_failed : might_exist(key)
    /\ (last.op = "get" /\ LastKey \in set_failed)
           => (last.passes /\ last.calls = IF last.resident THEN 0 ELSE 1)

C7_Witness ==
    /\ hash_count >= 1
    /\ last.op = "get"
    /\ LastKey \in set_failed
    /\ LastKey \notin DOMAIN redis
    /\ ~last.resident
    /\ last.calls = 1

\* C9: a lookup of a resident key returns the dict's value without a Redis
\* call and without consulting the filter.
C9_LocalHit ==
    (last.op = "get" /\ last.resident)
        => /\ last.calls = 0
           /\ ~last.filter
           /\ LastKey \in DOMAIN local_cache
           /\ last.ret = local_cache[LastKey]

\* the record has expired in Redis and the dict still answers
C9_Witness ==
    /\ last.op = "get"
    /\ last.resident
    /\ LastKey \notin DOMAIN redis
    /\ last.ret \in Values

\* C10: whenever a lookup's insertion evicts an entry, the entry evicted is
\* the least recently touched one.
C10_EvictsLeastRecent == last.evicted # {} => last.evicted = last.lru

\* C13: a lookup whose Redis query returns a record's value, the empty
\* string included, returns that value and leaves it in the dict.
C13_HitPopulates ==
    (last.op = "get" /\ last.calls = 1 /\ last.outcome = "ok"
        /\ LastKey \in DOMAIN redis)
        => /\ last.ret = redis[LastKey]
           /\ LastKey \in DOMAIN local_cache
           /\ local_cache[LastKey] = redis[LastKey]

\* what a step does to the dict
Inserted == (DOMAIN local_cache') \ (DOMAIN local_cache)
Removed == (DOMAIN local_cache) \ (DOMAIN local_cache')
Written ==
    Inserted \cup { k \in (DOMAIN local_cache) \cap (DOMAIN local_cache') :
                      local_cache'[k] # local_cache[k] }

\* C14: a lookup whose Redis query yields no value, because the record is
\* absent or because the call failed, leaves the dict as it was.
C14_MissLeavesLocal ==
    [][(last'.op = "get" /\ last'.calls = 1 /\ last'.ret \in {None, Raise})
          => local_cache' = local_cache]_vars

\* a filter false positive: the key was never added, passed the filter,
\* and Redis had no record
C14_Witness ==
    /\ hash_count >= 1
    /\ last.op = "get"
    /\ LastKey \notin added
    /\ last.calls = 1
    /\ last.outcome = "ok"
    /\ last.ret = None
    /\ local_cache # EmptyDict

\* C16: a step that inserts a new key into a dict at capacity removes
\* exactly one entry, and a step that inserts no new key removes none.
C16_InsertEvictsOne ==
    [][/\ (Inserted # {} /\ Cardinality(DOMAIN local_cache) >= max_local)
             => Cardinality(Removed) = 1
       /\ Inserted = {} => Removed = {}]_vars

\* the step is a lookup that got key's record from Redis and put it
LookupHit(key) ==
    /\ last'.op = "get"
    /\ Md5(last'.prompt) = key
    /\ last'.calls = 1
    /\ last'.outcome = "ok"
    /\ key \in DOMAIN redis
    /\ local_cache'[key] = redis[key]

\* the step is a store of key whose setex succeeded
StoreAcked(key) ==
    /\ last'.op = "set"
    /\ Md5(last'.prompt) = key
    /\ last'.outcome = "ok"
    /\ local_cache'[key] = last'.value

\* C17 as stated: an entry is put in the dict only by a lookup that
\* observed a Redis hit for its key.
C17_OnlyAfterHit == [][\A key \in Written : LookupHit(key)]_vars

\* C17 amended: an entry is put in the dict only by a lookup that observed
\* a Redis hit for its key, or by a store of that key whose setex succeeded.
C17_OnlyAfterHitOrStore ==
    [][\A key \in Written : LookupHit(key) \/ StoreAcked(key)]_vars

\* the dict holds an entry put by a store next to one put by a lookup
C17_Witness ==
    /\ last.op = "get"
    /\ last.calls = 1
    /\ last.outcome = "ok"
    /\ LastKey \in DOMAIN local_cache
    /\ \E key \in (DOMAIN local_cache) \cap own : key # LastKey

\* C18: an entry leaves the dict only as the one victim of a lookup that
\* inserts a new key into a dict at capacity; the expiry of its record
\* removes nothing, and a lookup of a resident key returns the dict's value
\* whether or not the record still exists.
C18_NoLocalExpiry ==
    [][/\ \A key \in Removed :
             /\ last'.op = "get"
             /\ last'.evicted = {key}
             /\ Md5(last'.prompt) \in Inserted
             /\ Cardinality(DOMAIN local_cache) >= max_local
       /\ \A p \in Prompts :
             (last'.op = "get" /\ last'.prompt = p
                 /\ Md5(p) \in DOMAIN local_cache)
                 => last'.ret = local_cache[Md5(p)]]_vars

\* a key this instance stored successfully, whose record is gone from
\* Redis, is still answered from the dict
C18_Witness ==
    /\ last.op = "get"
    /\ last.resident
    /\ LastKey \in added
    /\ LastKey \notin set_failed
    /\ LastKey \notin DOMAIN redis
    /\ last.calls = 0
    /\ last.ret = local_cache[LastKey]

\* Spec with the callers' requests kept coming: every prompt is looked up
\* again and again.
SpecLive ==
    Init /\ [][Next]_vars /\ \A p \in Prompts : WF_vars(cached_completion(p))

\* C11: every key that has a record in Redis, whoever wrote it, is
\* eventually answered "might exist" by the filter.
C11_FilterCoversStore ==
    \A key \in Keys : (key \in DOMAIN redis) ~> might_exist(key)

\* the standard sizing for the constructor arguments with 0 < p < 1:
\* m = ceil(-n * ln(p) / (ln 2)^2), k = round((m / n) * ln 2)
StandardSize(n, p) ==
    CASE n = 1000000 /\ p = "0.001" -> 14377588
      [] n = 100 /\ p = "0.001" -> 1438

StandardHashCount(n, p) ==
    CASE n = 1000000 /\ p = "0.001" -> 10
      [] n = 100 /\ p = "0.001" -> 10

\* C12: for an error rate in (0, 1) the constructor leaves the standard
\* bit-array size and hash count, both at least 1.
C12_StandardSizing ==
    error_rate = "0.001"
        => /\ size = StandardSize(capacity, error_rate)
           /\ hash_count = StandardHashCount(capacity, error_rate)
           /\ size >= 1
           /\ hash_count >= 1

(***************************************************************************)
(* SpecConc: request threads calling the singleton concurrently.  A thread *)
(* can be preempted between any two statements of get and set; a single    *)
(* dict or bitarray operation is atomic (it runs under the interpreter     *)
(* lock).  The observations of Spec are not kept here.                     *)
(***************************************************************************)
Observations == <<last, added, own, set_failed, recency>>
Unowned == <<last, added, set_failed, recency>>
Fixed == <<status, capacity, error_rate, size, hash_count>>
Calls == <<call, ncalls>>

\* set with the record written before the key is added to the filter
set_order_store_first == <<"setex", "add", "set_put">>

\* the statements of set after the key is computed: lines 74, 75, 76
set_order == <<"add", "setex", "set_put">>

PcAfter(pc) ==
    LET n == CHOOSE j \in 1..Len(set_order) : set_order[j] = pc
    IN  IF n = Len(set_order) THEN "idle" ELSE set_order[n + 1]

At(t, pc) == status = "running" /\ call[t].pc = pc
Goto(t, pc) == call' = [call EXCEPT ![t].pc = pc] /\ UNCHANGED ncalls
Return(t) == call' = [call EXCEPT ![t] = Idle] /\ UNCHANGED ncalls
Enter(t, frame) ==
    /\ ncalls < MaxCalls
    /\ call' = [call EXCEPT ![t] = frame]
    /\ ncalls' = ncalls + 1

\* line 50: a thread enters get(prompt)
c_get(t, prompt) ==
    /\ At(t, "idle")
    /\ Enter(t, [Idle EXCEPT !.pc = "get_in", !.key = Md5(prompt)])
    /\ UNCHANGED <<Fixed, bloom, local_cache, redis, written, Observations>>

\* line 53: if key in self.local_cache
c_get_in(t) ==
    /\ At(t, "get_in")
    /\ IF call[t].key \in DOMAIN local_cache
       THEN Goto(t, "get_hit")
       ELSE call' = [call EXCEPT ![t].pc = "might_exist", ![t].i = 1]
            /\ UNCHANGED ncalls
    /\ UNCHANGED <<Fixed, bloom, local_cache, redis, written, Observations>>

\* get as it would be if a local hit wrote the entry back to Redis
c_get_hit_writes_back(t) ==
    /\ At(t, "get_hit")
    /\ redis' = IF call[t].key \in DOMAIN local_cache
                THEN DictPut(redis, call[t].key, local_cache[call[t].key])
                ELSE redis
    /\ Return(t)
    /\ UNCHANGED <<Fixed, bloom, local_cache, written, Observations>>

\* line 54: return self.local_cache[key]; KeyError when another thread's
\* eviction removed the key since line 53
c_get_hit(t) ==
    /\ At(t, "get_hit")
    /\ Return(t)
    /\ UNCHANGED <<Fixed, bloom, local_cache, redis, written, Observations>>

\* lines 57, 39-40: all(self.bloom[pos] for pos in positions), one bit per
\* step; the first unset bit ends get with None (line 58)
c_might_exist(t) ==
    /\ At(t, "might_exist")
    /\ IF call[t].i > hash_count
       THEN Goto(t, "redis_get")
       ELSE IF bloom[_get_hash_positions(call[t].key)[call[t].i]] = 1
       THEN call' = [call EXCEPT ![t].i = @ + 1] /\ UNCHANGED ncalls
       ELSE Return(t)
    /\ UNCHANGED <<Fixed, bloom, local_cache, redis, written, Observations>>

\* lines 61-62, 69: result = self.redis.get(...); a raise ends the call, a
\* falsy result is returned as it is
c_redis_get(t) ==
    /\ At(t, "redis_get")
    /\ \E outcome \in {"ok", "error"} :
        LET result == RedisGet(call[t].key, outcome)
        IN  IF result # Raise /\ Truthy(result)
            THEN call' = [call EXCEPT ![t].pc = "len", ![t].result = result]
                 /\ UNCHANGED ncalls
            ELSE Return(t)
    /\ UNCHANGED <<Fixed, bloom, local_cache, redis, written, Observations>>

\* line 64: if len(self.local_cache) >= self.max_local
c_len(t) ==
    /\ At(t, "len")
    /\ IF Cardinality(DOMAIN local_cache) >= max_local
       THEN Goto(t, "min")
       ELSE Goto(t, "get_put")
    /\ UNCHANGED <<Fixed, bloom, local_cache, redis, written, Observations>>

\* line 66: oldest = min(self.local_cache.keys()); ValueError on an empty dict
c_min(t) ==
    /\ At(t, "min")
    /\ IF DOMAIN local_cache = {}
       THEN Return(t)
       ELSE call' = [call EXCEPT ![t].pc = "del",
                                 ![t].oldest = Min(DOMAIN local_cache)]
            /\ UNCHANGED ncalls
    /\ UNCHANGED <<Fixed, bloom, local_cache, redis, written, Observations>>

\* line 67: del self.local_cache[oldest]; KeyError when it is gone already
c_del(t) ==
    /\ At(t, "del")
    /\ IF call[t].oldest \in DOMAIN local_cache
       THEN /\ local_cache' = DictDel(local_cache, call[t].oldest)
            /\ Goto(t, "get_put")
       ELSE /\ Return(t)
            /\ UNCHANGED local_cache
    /\ UNCHANGED <<Fixed, bloom, redis, written, Observations>>

\* lines 68-69: self.local_cache[key] = result; return result
c_get_put(t) ==
    /\ At(t, "get_put")
    /\ local_cache' = DictPut(local_cache, call[t].key, call[t].result)
    /\ own' = own \ {call[t].key}
    /\ Return(t)
    /\ UNCHANGED <<Fixed, bloom, redis, written, Unowned>>

\* line 73: a thread enters set(prompt, response)
c_set(t, prompt, response) ==
    /\ At(t, "idle")
    /\ Enter(t, [Idle EXCEPT !.pc = set_order[1], !.key = Md5(prompt),
                               !.value = response, !.i = 1])
    /\ UNCHANGED <<Fixed, bloom, local_cache, redis, written, Observations>>

\* add as it would be if the item assignment wrote back a stale copy of the
\* array in which only its own bit is set
c_add_clears(t) ==
    /\ At(t, "add")
    /\ IF call[t].i > hash_count
       THEN /\ Goto(t, PcAfter("add"))
            /\ UNCHANGED bloom
       ELSE /\ bloom' = [pos \in DOMAIN bloom |->
                           IF pos = _get_hash_positions(call[t].key)[call[t].i]
                           THEN 1 ELSE 0]
            /\ call' = [call EXCEPT ![t].i = @ + 1]
            /\ UNCHANGED ncalls
    /\ UNCHANGED <<Fixed, local_cache, redis, written, Observations>>

\* lines 74, 44-46: for pos in positions: self.bloom[pos] = 1, one bit per step
c_add(t) ==
    /\ At(t, "add")
    /\ IF call[t].i > hash_count
       THEN /\ Goto(t, PcAfter("add"))
            /\ UNCHANGED bloom
       ELSE /\ bloom' = [bloom EXCEPT
                           ![_get_hash_positions(call[t].key)[call[t].i]] = 1]
            /\ call' = [call EXCEPT ![t].i = @ + 1]
            /\ UNCHANGED ncalls
    /\ UNCHANGED <<Fixed, local_cache, redis, written, Observations>>

\* line 75: self.redis.setex(...); a raise ends the call
c_setex(t) ==
    /\ At(t, "setex")
    /\ \E outcome \in {"ok", "error", "timeout"} :
        /\ IF outcome = "error"
           THEN UNCHANGED <<redis, written>>
           ELSE /\ redis' = DictPut(redis, call[t].key, call[t].value)
                /\ written' = written \cup {call[t].key}
        /\ own' = IF outcome = "ok" THEN own \cup {call[t].key}
                  ELSE IF outcome = "timeout" THEN own \ {call[t].key}
                  ELSE own
        /\ IF outcome = "ok" THEN Goto(t, PcAfter("setex")) ELSE Return(t)
    /\ UNCHANGED <<Fixed, bloom, local_cache, Unowned>>

\* line 76: self.local_cache[key] = response
c_set_put(t) ==
    /\ At(t, "set_put")
    /\ local_cache' = DictPut(local_cache, call[t].key, call[t].value)
    /\ Goto(t, PcAfter("set_put"))
    /\ UNCHANGED <<Fixed, bloom, redis, written, Observations>>

\* the TTL of a record elapses
c_expire(key) ==
    /\ status = "running"
    /\ key \in DOMAIN redis
    /\ redis' = DictDel(redis, key)
    /\ own' = own \ {key}
    /\ UNCHANGED <<Fixed, bloom, local_cache, written, Calls, Unowned>>

\* another process stores a response in the shared Redis
c_peer_set(prompt, response) ==
    /\ status = "running"
    /\ redis' = DictPut(redis, Md5(prompt), response)
    /\ own' = own \ {Md5(prompt)}
    /\ UNCHANGED <<Fixed, bloom, local_cache, written, Calls, Unowned>>

NextConc ==
    \/ \E t \in Threads, p \in Prompts : c_get(t, p)
    \/ \E t \in Threads : c_get_in(t)
    \/ \E t \in Threads : c_get_hit(t)
    \/ \E t \in Threads : c_might_exist(t)
    \/ \E t \in Threads : c_redis_get(t)
    \/ \E t \in Threads : c_len(t)
    \/ \E t \in Threads : c_min(t)
    \/ \E t \in Threads : c_del(t)
    \/ \E t \in Threads : c_get_put(t)
    \/ \E t \in Threads, p \in Prompts : \E v \in Responses(p) : c_set(t, p, v)
    \/ \E t \in Threads : c_add(t)
    \/ \E t \in Threads : c_setex(t)
    \/ \E t \in Threads : c_set_put(t)
    \/ \E k \in Keys : c_expire(k)
    \/ \E p \in Prompts : \E v \in Responses(p) : c_peer_set(p, v)

SpecConc == Init /\ [][NextConc]_vars

\* C8: in every interleaving, every key this instance has written to Redis
\* is answered "might exist" by the filter: set adds the key before it
\* writes the record, and no step clears a bit.
C8_FilterBeforeStore == \A key \in written : might_exist(key)

\* one thread has written its record and not yet left set, while another
\* thread's lookup is reading the filter
C8_Witness ==
    /\ hash_count >= 1
    /\ \E t, u \in Threads :
        /\ call[t].pc = "set_put"
        /\ call[t].key \in written
        /\ call[u].pc = "might_exist"
        /\ call[u].key = call[t].key

\* C15: as long as only lookups have inserted into the dict, no interleaving
\* of their inserts leaves it holding more than max_local entries.
C15_ConcurrentInsertsBounded ==
    written = {} => Cardinality(DOMAIN local_cache) <= max_local

\* C19: in every interleaving, a thread that has finished add(key) finds
\* might_exist(key) true while it goes on, whatever the other thread has
\* added meanwhile, and no step of any thread clears a bit that is set.
C19_NoLostBits ==
    /\ [](\A t \in Threads :
            call[t].pc \in {"setex", "set_put"} => might_exist(call[t].key))
    /\ [][\A pos \in DOMAIN bloom : bloom[pos] = 1 => bloom'[pos] = 1]_vars

\* two threads have finished add for different keys, bit by bit in turn
C19_Witness ==
    /\ hash_count >= 1
    /\ \E t, u \in Threads :
        /\ call[t].pc = "setex"
        /\ call[u].pc = "setex"
        /\ call[t].key # call[u].key
        /\ might_exist(call[t].key)
        /\ might_exist(call[u].key)

\* C20: when no call is in progress, every key whose Redis record and dict
\* entry were last written by completed set calls of this instance has the
\* same value in the dict as in Redis.
C20_StoresAgree ==
    (\A t \in Threads : call[t].pc = "idle")
        => \A key \in own \cap DOMAIN local_cache :
               local_cache[key] = redis[key]

\* C21: in every interleaving of lookups repopulating a full dict, a thread
\* about to execute del self.local_cache[oldest] finds oldest in the dict.
C21_VictimPresent ==
    \A t \in Threads :
        call[t].pc = "del" => call[t].oldest \in DOMAIN local_cache

\* the statements of get, lines 50-69
GetPcs ==
    {"get_in", "get_hit", "might_exist", "redis_get", "len", "min", "del",
     "get_put"}

\* thread t executes a statement of get in this step
GetStep(t) ==
    /\ call'[t] # call[t]
    /\ call[t].pc \in GetPcs \/ call'[t].pc = "get_in"

\* C22: no statement of get, on any path, changes the filter or Redis, and
\* the filter is changed by no statement other than add's, inside set.
C22_LookupReadOnly ==
    [][/\ \A t \in Threads :
             GetStep(t) => bloom' = bloom /\ redis' = redis
       /\ bloom' # bloom
             => \E t \in Threads : call[t].pc = "add" /\ call'[t] # call[t]]_vars

\* lookups have taken the local-hit path and the Redis-hit path: one thread
\* is returning a resident entry whose record has expired, the other has
\* read a record through the filter and is about to repopulate
C22_Witness ==
    /\ hash_count >= 1
    /\ \E t, u \in Threads :
        /\ call[t].pc = "get_hit"
        /\ call[t].key \in DOMAIN local_cache
        /\ call[t].key \notin DOMAIN redis
        /\ call[u].pc = "get_put"
        /\ call[u].key \in DOMAIN redis
        /\ redis[call[u].key] = call[u].result
        /\ might_exist(call[u].key)
====
